---- MODULE Spec2Model ----
(***************************************************************************)
(* find_local_only_code.py: scan git working copies for work that was      *)
(* never pushed.  Text is a sequence of one-character strings, so that the *)
(* two regular expressions are matched character by character.             *)
(***************************************************************************)
EXTENDS Integers, Sequences, FiniteSets, TLC

(* ------------------------------------------------------------------ *)
(* Bounds of the model                                                  *)
(* ------------------------------------------------------------------ *)
MaxLines == 2       \* lines of one `git branch -vv` listing given to the parser
MaxCount == 12      \* largest ahead / behind count git prints (two digits)
MaxBranches == 2    \* records given to the classifier
MaxCommits == 2     \* largest `git log ^master <branch>` line count
MaxRepos == 2       \* repositories on the command line
MaxStashes == 1     \* largest number of `git stash list` lines
MaxFiles == 1       \* largest number of untracked / modified files listed
MaxListed == 2      \* branches of a repository scanned by main

(* ------------------------------------------------------------------ *)
(* Characters and Python's character classes                            *)
(* ------------------------------------------------------------------ *)
DigitSeq == <<"0", "1", "2", "3", "4", "5", "6", "7", "8", "9">>

Digits == {DigitSeq[i] : i \in 1..10}

Letters ==
    {"a", "b", "c", "d", "e", "f", "g", "h", "i", "j", "k", "l", "m",
     "n", "o", "p", "q", "r", "s", "t", "u", "v", "w", "x", "y", "z",
     "A", "D", "E", "H"}

\* \w
WordChars == Letters \cup Digits \cup {"_"}

\* \s (a line never holds "\n": get_command_output_lines splits on it)
Space == {" ", "\t"}

Alphabet == WordChars \cup Space \cup {"*", "+", "-", "/", ":", ",", "[", "]", "(", ")"}

\* [^ ]
NotBlank == Alphabet \ {" "}

\* [\w-]
RemoteChars == WordChars \cup {"-"}

\* [^:\]]
RemoteBranchChars == Alphabet \ {":", "]"}

\* Python's None, and a value that is set
None == <<>>

Some(x) == <<x>>

(* ------------------------------------------------------------------ *)
(* Backtracking regular-expression matching                             *)
(* A match is the tuple of positions reached after each quantified      *)
(* item; every quantifier of the two patterns is greedy, so the match   *)
(* re.match returns is the lexicographically greatest tuple.            *)
(* ------------------------------------------------------------------ *)
\* X+ at position p: the positions after a non-empty run of characters of C
Run(s, p, C) ==
    {q \in (p + 1)..(Len(s) + 1) : \A k \in p..(q - 1) : s[k] \in C}

\* X? at position p
Opt(s, p, C) ==
    {p} \cup (IF p <= Len(s) /\ s[p] \in C THEN {p + 1} ELSE {})

\* a literal word w at position p
Lit(s, p, w) ==
    IF p + Len(w) - 1 <= Len(s) /\ SubSeq(s, p, p + Len(w) - 1) = w
    THEN {p + Len(w)} ELSE {}

\* (?:w(\d))?: the count group with \d in place of \d+
OptCountOneDigit(s, p, w) ==
    {p} \cup UNION {{r + 1 : d \in {s[r]} \cap Digits} :
                       r \in {q \in Lit(s, p, w) : q <= Len(s)}}

\* (?:w(\d+))? at position p
OptCount(s, p, w) ==
    {p} \cup UNION {Run(s, r, Digits) : r \in Lit(s, p, w)}

LexLeq(a, b) ==
    \E k \in 1..(Len(a) + 1) :
        /\ \A j \in 1..(k - 1) : a[j] = b[j]
        /\ k = Len(a) + 1 \/ a[k] < b[k]

\* the match a backtracking matcher finds first
Preferred(S) == CHOOSE t \in S : \A u \in S : LexLeq(u, t)

Ahead == <<"a", "h", "e", "a", "d", " ">>

Behind == <<"b", "e", "h", "i", "n", "d", " ">>

\* ^\*?\s+(?P<name>[^ ]+)\s+(?P<head>\w+) (?P<state>.+)$
\* <<after \*?, after \s+, after name, after \s+, after head>>
BRANCH_DETAILS_RE(s) ==
    UNION { UNION { UNION { UNION {
        {<<p1, p2, p3, p4, p5>> :
            p5 \in {q \in Run(s, p4, WordChars) : q + 1 <= Len(s) /\ s[q] = " "}}
        : p4 \in Run(s, p3, Space)}
        : p3 \in Run(s, p2, NotBlank)}
        : p2 \in Run(s, p1, Space)}
        : p1 \in Opt(s, 1, {"*"})}

\* \[(?P<remote>[\w-]+)\/(?P<remote_branch>[^:\]]+):?\s?(?:ahead (?P<ahead>\d+))?
\*   ,?\s?(?:behind (?P<behind>\d+))?\]\s.*$
\* <<after remote, after remote_branch, after :?, after \s?, after the ahead
\*   group, after ,?, after \s?, after the behind group>>
BRANCH_STATE_RE(s) ==
    UNION { UNION { UNION { UNION { UNION { UNION { UNION {
        {<<q1, q2, q3, q4, q5, q6, q7, q8>> :
            q8 \in {q \in OptCount(s, q7, Behind) :
                       q + 1 <= Len(s) /\ s[q] = "]" /\ s[q + 1] \in Space}}
        : q7 \in Opt(s, q6, Space)}
        : q6 \in Opt(s, q5, {","})}
        : q5 \in OptCount(s, q4, Ahead)}
        : q4 \in Opt(s, q3, Space)}
        : q3 \in Opt(s, q2, {":"})}
        : q2 \in Run(s, q1 + 1, RemoteBranchChars)}
        : q1 \in {q \in UNION {Run(s, r, RemoteChars) : r \in Lit(s, 1, <<"[">>)} :
                     q <= Len(s) /\ s[q] = "/"}}

\* BRANCH_STATE_RE.search(state): the annotation found anywhere in the state
StateSearch(s) ==
    IF \E k \in 1..Len(s) : BRANCH_STATE_RE(SubSeq(s, k, Len(s))) # {}
    THEN LET k == CHOOSE k \in 1..Len(s) :
                      /\ BRANCH_STATE_RE(SubSeq(s, k, Len(s))) # {}
                      /\ \A j \in 1..(k - 1) : BRANCH_STATE_RE(SubSeq(s, j, Len(s))) = {}
         IN  Some(Preferred(BRANCH_STATE_RE(SubSeq(s, k, Len(s)))))
    ELSE None

\* BRANCH_STATE_RE.match(state)
StateMatch(s) ==
    IF BRANCH_STATE_RE(s) # {}
    THEN Some(Preferred(BRANCH_STATE_RE(s))) ELSE None

\* int() of a string of decimal digits
RECURSIVE int(_)
int(ds) ==
    IF ds = <<>> THEN 0
    ELSE 10 * int(SubSeq(ds, 1, Len(ds) - 1))
         + (CHOOSE d \in 0..9 : DigitSeq[d + 1] = ds[Len(ds)])

\* remote_match.groupdict(default='0') for the groups ahead and behind
CountGroup(s, from, to, w) ==
    IF to = from THEN <<"0">> ELSE SubSeq(s, from + Len(w), to - 1)

\* Branch(name, head, remote, remote_branch, ahead, behind)
Branch(name, head, remote, remote_branch, ahead, behind) ==
    [name |-> name, head |-> head, remote |-> remote,
     remote_branch |-> remote_branch, ahead |-> ahead, behind |-> behind]

\* the record with the remote branch left out
BranchOfRemoteOnly(s, m) ==
    LET name == SubSeq(s, m[2], m[3] - 1)
        head == SubSeq(s, m[4], m[5] - 1)
        state == SubSeq(s, m[5] + 1, Len(s))
        remote_match == StateMatch(state)
    IN  IF remote_match # None
        THEN LET r == remote_match[1]
             IN  Branch(name, head,
                        Some(SubSeq(state, 2, r[1] - 1)),
                        None,
                        int(CountGroup(state, r[4], r[5], Ahead)),
                        int(CountGroup(state, r[7], r[8], Behind)))
        ELSE Branch(name, head, None, None, 0, 0)

\* the record of a line that matched BRANCH_DETAILS_RE at m
BranchOf(s, m) ==
    LET name == SubSeq(s, m[2], m[3] - 1)
        head == SubSeq(s, m[4], m[5] - 1)
        state == SubSeq(s, m[5] + 1, Len(s))
        remote_match == StateMatch(state)
    IN  IF remote_match # None
        THEN LET r == remote_match[1]
             IN  Branch(name, head,
                        Some(SubSeq(state, 2, r[1] - 1)),
                        Some(SubSeq(state, r[1] + 1, r[2] - 1)),
                        int(CountGroup(state, r[4], r[5], Ahead)),
                        int(CountGroup(state, r[7], r[8], Behind)))
        ELSE Branch(name, head, None, None, 0, 0)

\* BRANCH_DETAILS_RE.match(branch_details) is not None
Matches(s) == BRANCH_DETAILS_RE(s) # {}

\* the parser yielding the records last line first
RECURSIVE parse_reversed(_)
parse_reversed(branch_output) ==
    IF branch_output = <<>> THEN [yielded |-> <<>>, written |-> <<>>]
    ELSE LET branch_details == Head(branch_output)
             rest == parse_reversed(Tail(branch_output))
         IN  IF ~Matches(branch_details)
             THEN [yielded |-> rest.yielded,
                   written |-> <<branch_details>> \o rest.written]
             ELSE [yielded |-> rest.yielded
                                 \o <<BranchOf(branch_details,
                                               Preferred(BRANCH_DETAILS_RE(branch_details)))>>,
                   written |-> rest.written]

\* the parser with `break` in place of `continue`
RECURSIVE parse_until_mismatch(_)
parse_until_mismatch(branch_output) ==
    IF branch_output = <<>> THEN [yielded |-> <<>>, written |-> <<>>]
    ELSE LET branch_details == Head(branch_output)
         IN  IF ~Matches(branch_details)
             THEN [yielded |-> <<>>, written |-> <<branch_details>>]
             ELSE LET rest == parse_until_mismatch(Tail(branch_output))
                  IN  [yielded |-> <<BranchOf(branch_details,
                                              Preferred(BRANCH_DETAILS_RE(branch_details)))>>
                                      \o rest.yielded,
                       written |-> rest.written]

\* parse_git_branch_output: the records yielded and the lines written to stderr
RECURSIVE parse_git_branch_output(_)
parse_git_branch_output(branch_output) ==
    IF branch_output = <<>> THEN [yielded |-> <<>>, written |-> <<>>]
    ELSE LET branch_details == Head(branch_output)
             rest == parse_git_branch_output(Tail(branch_output))
         IN  IF ~Matches(branch_details)
             THEN [yielded |-> rest.yielded,
                   written |-> <<branch_details>> \o rest.written]
             ELSE [yielded |-> <<BranchOf(branch_details,
                                          Preferred(BRANCH_DETAILS_RE(branch_details)))>>
                                 \o rest.yielded,
                   written |-> rest.written]

(* ------------------------------------------------------------------ *)
(* `git branch -vv`: the lines git prints for the branches of a         *)
(* repository.  A descriptor says what git knows about one branch.      *)
(* ------------------------------------------------------------------ *)
\* printf("%d")
RECURSIVE Decimal(_)
Decimal(n) ==
    IF n < 10 THEN <<DigitSeq[n + 1]>>
    ELSE Decimal(n \div 10) \o <<DigitSeq[(n % 10) + 1]>>

Spaces(n) == [i \in 1..n |-> " "]

\* "[origin/x]", "[origin/x: ahead 1]", "[origin/x: behind 2]",
\* "[origin/x: ahead 1, behind 1]"
Tracking(d) ==
    <<"[">> \o d.remote \o <<"/">> \o d.remote_branch
    \o (IF d.ahead > 0 \/ d.behind > 0 THEN <<":", " ">> ELSE <<>>)
    \o (IF d.ahead > 0 THEN Ahead \o Decimal(d.ahead) ELSE <<>>)
    \o (IF d.ahead > 0 /\ d.behind > 0 THEN <<",", " ">> ELSE <<>>)
    \o (IF d.behind > 0 THEN Behind \o Decimal(d.behind) ELSE <<>>)
    \o <<"]">>

\* one line of the listing
GitBranchLine(d) ==
    IF d.kind = "raw" THEN d.raw
    ELSE (IF d.current THEN <<"*", " ">> ELSE <<" ", " ">>)
         \o d.name \o Spaces(d.pad) \o d.head \o <<" ">>
         \o (IF d.kind = "tracked" THEN Tracking(d) \o <<" ">> ELSE <<>>)
         \o d.subject

GitBranchOutput(ds) == [i \in 1..Len(ds) |-> GitBranchLine(ds[i])]

Fix == <<"f", "i", "x">>

\* the counts the listings of the model show
Counts == {0, 1, MaxCount}

\* branches that track a remote branch
TrackedBranches ==
    {[kind |-> "tracked", shaped |-> TRUE, current |-> b.current, name |-> b.name,
      pad |-> b.pad, head |-> b.head, remote |-> b.remote,
      remote_branch |-> b.remote_branch, ahead |-> a, behind |-> c,
      subject |-> Fix, raw |-> <<>>] :
        b \in {[current |-> TRUE, name |-> <<"m">>, pad |-> 3, head |-> <<"a", "1">>,
                remote |-> <<"o">>, remote_branch |-> <<"m">>],
               [current |-> FALSE, name |-> <<"f", "-", "x">>, pad |-> 1,
                head |-> <<"9", "c", "0">>,
                remote |-> <<"u", "-", "1">>, remote_branch |-> <<"f", "/", "x">>]},
        a \in Counts, c \in Counts}

\* branches with no upstream; the subject of the head commit is free text
LocalBranches ==
    {[kind |-> "local", shaped |-> TRUE, current |-> b.current, name |-> b.name,
      pad |-> b.pad, head |-> b.head, remote |-> <<>>, remote_branch |-> <<>>,
      ahead |-> 0, behind |-> 0, subject |-> t, raw |-> <<>>] :
        b \in {[current |-> FALSE, name |-> <<"m">>, pad |-> 2, head |-> <<"a", "1">>],
               [current |-> TRUE, name |-> <<"w", "i", "p">>, pad |-> 1,
                head |-> <<"9", "c", "0">>]},
        t \in {Fix,
               <<"x", " ", "[", "o", "/", "m", "]", " ", "y">>,
               <<"[", "w", "i", "p", "]", " ", "x">>}}

RawLine(shaped, name, head, raw) ==
    [kind |-> "raw", shaped |-> shaped, current |-> FALSE, name |-> name, pad |-> 1,
     head |-> head, remote |-> <<>>, remote_branch |-> <<>>, ahead |-> 0,
     behind |-> 0, subject |-> <<>>, raw |-> raw]

\* other lines git prints: a detached HEAD, an upstream that is gone, a branch
\* checked out in another worktree, a head commit with an empty subject
OtherLines ==
    {RawLine(TRUE, <<"(", "H", "E", "A", "D">>, <<"d", "e", "t", "a", "c", "h", "e", "d">>,
             <<"*", " ", "(", "H", "E", "A", "D", " ", "d", "e", "t", "a", "c", "h", "e",
               "d", " ", "a", "t", " ", "a", "1", ")", " ", "a", "1", " ", "f", "i", "x">>),
     RawLine(TRUE, <<"m">>, <<"a", "1">>,
             <<" ", " ", "m", " ", "a", "1", " ", "[", "o", "/", "m", ":", " ",
               "g", "o", "n", "e", "]", " ", "f", "i", "x">>),
     RawLine(FALSE, <<>>, <<>>,
             <<"+", " ", "m", " ", "a", "1", " ", "f", "i", "x">>),
     RawLine(FALSE, <<>>, <<>>,
             <<" ", " ", "m", " ", "a", "1", " ">>)}

BranchPool == TrackedBranches \cup LocalBranches \cup OtherLines

\* the sequences over S of length at most n
SeqsUpTo(S, n) == UNION {[1..k -> S] : k \in 0..n}

(* ------------------------------------------------------------------ *)
(* Running git                                                          *)
(* ------------------------------------------------------------------ *)
\* the exit code git gives for a path that is no repository
NOT_A_REPO == 128

\* a finished subprocess: its exit code and the lines it printed, each ended
\* by a newline
Process(returncode, lines) == [returncode |-> returncode, lines |-> lines]

\* get_command_output_lines: raises ProcessFailed(returncode) or returns the lines
\* (stdout.split('\n')[:-1] of a str whose lines each end in a newline)
get_command_output_lines(process) ==
    IF process.returncode # 0
    THEN [raised |-> TRUE, returncode |-> process.returncode, value |-> <<>>]
    ELSE [raised |-> FALSE, returncode |-> 0, value |-> process.lines]

\* the record of one command run: the git subcommand, the branch it names, and
\* how it ended
Call(cmd, arg, process) ==
    [cmd |-> cmd, arg |-> arg, returncode |-> process.returncode,
     lines |-> Len(process.lines)]

Entries(n) == [i \in 1..n |-> <<"e">>]

\* what `git stash list` can do
StashRuns ==
    {Process(NOT_A_REPO, <<>>), Process(1, <<>>)}
    \cup {Process(0, Entries(n)) : n \in 0..MaxStashes}

\* what `git log --oneline ^master <branch>` can do
LogRuns ==
    {Process(NOT_A_REPO, <<>>)} \cup {Process(0, Entries(n)) : n \in 0..MaxCommits}

\* what `git ls-files` can do
FileRuns ==
    {Process(1, <<>>)} \cup {Process(0, [i \in 1..n |-> <<"f">>]) : n \in 0..MaxFiles}

(* ------------------------------------------------------------------ *)
(* The classifier                                                       *)
(* ------------------------------------------------------------------ *)
\* Python's truth value of an optional string, of a number, of a list
TruthyStr(v) == v # None /\ v # Some(<<>>)

TruthyInt(n) == n # 0

TruthyList(l) == l # <<>>

\* check_local_only_branches without the test of commit_count
RECURSIVE LocalOnlyFromAnyCount(_, _, _)
LocalOnlyFromAnyCount(bs, i, git_log) ==
    IF i > Len(bs) THEN [raised |-> FALSE, value |-> <<>>, calls |-> <<>>]
    ELSE IF TruthyStr(bs[i].remote) THEN LocalOnlyFromAnyCount(bs, i + 1, git_log)
    ELSE LET out == get_command_output_lines(git_log[i])
             call == Call("log", bs[i].name, git_log[i])
         IN  IF out.raised
             THEN [raised |-> TRUE, value |-> <<>>, calls |-> <<call>>]
             ELSE LET rest == LocalOnlyFromAnyCount(bs, i + 1, git_log)
                  IN  [raised |-> rest.raised,
                       value |-> <<<<bs[i].name, Len(out.value)>>>> \o rest.value,
                       calls |-> <<call>> \o rest.calls]

\* check_local_only_branches from branch i on; git_log[i] is what `git log` does
\* when run for branch i.  Gives the list built, the commands run, and whether
\* ProcessFailed was raised.
RECURSIVE LocalOnlyFrom(_, _, _)
LocalOnlyFrom(bs, i, git_log) ==
    IF i > Len(bs) THEN [raised |-> FALSE, value |-> <<>>, calls |-> <<>>]
    ELSE IF TruthyStr(bs[i].remote) THEN LocalOnlyFrom(bs, i + 1, git_log)
    ELSE LET out == get_command_output_lines(git_log[i])
             call == Call("log", bs[i].name, git_log[i])
         IN  IF out.raised
             THEN [raised |-> TRUE, value |-> <<>>, calls |-> <<call>>]
             ELSE LET commit_count == Len(out.value)
                      rest == LocalOnlyFrom(bs, i + 1, git_log)
                  IN  [raised |-> rest.raised,
                       value |-> (IF TruthyInt(commit_count)
                                  THEN <<<<bs[i].name, commit_count>>>>
                                  ELSE <<>>) \o rest.value,
                       calls |-> <<call>> \o rest.calls]

check_local_only_branches(bs, git_log) == LocalOnlyFrom(bs, 1, git_log)

\* check_unpushed_branches skipping a branch only when it is neither ahead nor
\* behind
RECURSIVE check_diverged_branches(_)
check_diverged_branches(bs) ==
    IF bs = <<>> THEN <<>>
    ELSE LET branch == Head(bs)
             rest == check_diverged_branches(Tail(bs))
         IN  IF ~TruthyStr(branch.remote) THEN rest
             ELSE IF ~TruthyInt(branch.ahead) /\ ~TruthyInt(branch.behind) THEN rest
             ELSE <<<<branch.name, branch.ahead, branch.behind>>>> \o rest

\* list(check_unpushed_branches(repo_path, branches))
RECURSIVE check_unpushed_branches(_)
check_unpushed_branches(bs) ==
    IF bs = <<>> THEN <<>>
    ELSE LET branch == Head(bs)
             rest == check_unpushed_branches(Tail(bs))
         IN  IF ~TruthyStr(branch.remote) THEN rest
             ELSE IF ~TruthyInt(branch.ahead) THEN rest
             ELSE <<<<branch.name, branch.ahead, branch.behind>>>> \o rest

(* ------------------------------------------------------------------ *)
(* What scan_repo prints                                                *)
(* ------------------------------------------------------------------ *)
\* one printed line: the repository, the fixed text, and the values formatted
\* into it
Line(repo_path, text, what, n, m) ==
    [repo_path |-> repo_path, text |-> text, what |-> what, n |-> n, m |-> m]

\* the except clause without the test of the exit code
StashFailureUnknown(repo_path, returncode) ==
    <<Line(repo_path, "Got unknown error when checking stashes in", <<>>, 0, 0)>>

\* the except clause of scan_repo
StashFailureReport(repo_path, returncode) ==
    IF returncode = NOT_A_REPO
    THEN <<Line(repo_path, "is not a git repo", <<>>, 0, 0)>>
    ELSE <<Line(repo_path, "Got unknown error when checking stashes in", <<>>, 0, 0)>>

StashReport(repo_path, n) ==
    IF TruthyInt(n) THEN <<Line(repo_path, "has stashes", <<>>, n, 0)>> ELSE <<>>

LocalOnlyReport(repo_path, l) ==
    [i \in 1..Len(l) |-> Line(repo_path, "has local-only branch", l[i][1], l[i][2], 0)]

\* the trailer ' (and %d behind)' is printed when behind is not 0
UnpushedReport(repo_path, l) ==
    [i \in 1..Len(l) |->
        Line(repo_path, "has branch which is commits ahead", l[i][1], l[i][2], l[i][3])]

FileReport(repo_path, text, l) ==
    [i \in 1..Len(l) |-> Line(repo_path, text, l[i], 0, 0)]

\* the verdict without modified_files
UpToDateButModified(n, local_only, unpushed, untracked, modified) ==
    ~(\/ TruthyInt(n)
      \/ TruthyList(local_only)
      \/ TruthyList(unpushed)
      \/ TruthyList(untracked))

\* not (stashes or local_only_branches or unpushed_branches or untracked_files
\*      or modified_files)
UpToDate(n, local_only, unpushed, untracked, modified) ==
    ~(\/ TruthyInt(n)
      \/ TruthyList(local_only)
      \/ TruthyList(unpushed)
      \/ TruthyList(untracked)
      \/ TruthyList(modified))

VerdictReport(repo_path, n, local_only, unpushed, untracked, modified) ==
    IF UpToDate(n, local_only, unpushed, untracked, modified)
    THEN <<Line(repo_path, "is up to date", <<>>, 0, 0)>> ELSE <<>>

(* ------------------------------------------------------------------ *)
(* State                                                                *)
(* ------------------------------------------------------------------ *)
VARIABLES
    repositories,        \* args.repositories
    repo,                \* position of main's loop in repositories
    pc,                  \* position in scan_repo
    stashes,             \* scan_repo's locals
    listing,             \* what git knows of the branches of the repository
    raw_branches,        \* the lines of `git branch -vv`
    branches,
    local_only_branches,
    unpushed_branches,
    untracked_files,
    modified_files,
    stdout,              \* lines printed by the running scan_repo call
    stderr,              \* lines written to sys.stderr by the parser
    calls                \* git commands run by the running scan_repo call

vars ==
    <<repositories, repo, pc, stashes, listing, raw_branches, branches,
      local_only_branches, unpushed_branches, untracked_files, modified_files,
      stdout, stderr, calls>>

(* ------------------------------------------------------------------ *)
(* The parser on its own: parse_git_branch_output applied to a listing  *)
(* ------------------------------------------------------------------ *)
InitParse ==
    /\ listing \in SeqsUpTo(BranchPool, MaxLines)
    /\ raw_branches = GitBranchOutput(listing)
    /\ pc = "parse"
    /\ repositories = <<>> /\ repo = 0 /\ stashes = 0
    /\ branches = <<>> /\ local_only_branches = <<>> /\ unpushed_branches = <<>>
    /\ untracked_files = <<>> /\ modified_files = <<>>
    /\ stdout = <<>> /\ stderr = <<>> /\ calls = <<>>

\* list(parse_git_branch_output(raw_branches))
Parse ==
    /\ pc = "parse"
    /\ LET parsed == parse_git_branch_output(raw_branches)
       IN  /\ branches' = parsed.yielded
           /\ stderr' = parsed.written
    /\ pc' = "parsed"
    /\ UNCHANGED <<repositories, repo, stashes, listing, raw_branches,
                   local_only_branches, unpushed_branches, untracked_files,
                   modified_files, stdout, calls>>

NextParse == Parse

SpecParse == InitParse /\ [][NextParse]_vars

(* ------------------------------------------------------------------ *)
(* main and scan_repo.  stdout, stderr and calls hold what the running  *)
(* (or last) scan_repo call produced; they are cleared when main calls  *)
(* scan_repo for the next repository.                                   *)
(* ------------------------------------------------------------------ *)
Path(i) == IF i % 2 = 1 THEN "r1" ELSE "r2"

\* the branches the repositories scanned by main have: one ahead, one behind,
\* one ahead and behind, one with no upstream, one whose upstream is gone, and
\* one whose line the parser skips
ScanPool ==
    {d \in TrackedBranches :
        /\ d.ahead <= 1 /\ d.behind <= 1 /\ d.ahead + d.behind >= 1
        /\ d.current <=> d.behind = 0}
    \cup {d \in LocalBranches : d.current /\ d.subject = Fix}
    \cup {d \in OtherLines : d.raw[1] = " "}

Init ==
    /\ repositories \in {[i \in 1..n |-> Path(i)] : n \in 1..MaxRepos}
    /\ repo = 1
    /\ pc = "scan_repo"
    /\ stashes = 0 /\ listing = <<>> /\ raw_branches = <<>>
    /\ branches = <<>> /\ local_only_branches = <<>> /\ unpushed_branches = <<>>
    /\ untracked_files = <<>> /\ modified_files = <<>>
    /\ stdout = <<>> /\ stderr = <<>> /\ calls = <<>>

\* scan_repo returns: main's loop takes the next repository, or main returns
Return ==
    /\ repo' = repo + 1
    /\ pc' = IF repo + 1 > Len(repositories) THEN "exit" ELSE "scan_repo"

\* ProcessFailed leaves scan_repo and main uncaught: the interpreter exits
Raise ==
    /\ repo' = repo
    /\ pc' = "raised"

\* scan_repo, lines 32-43: check_stashes and its except clause
CheckStashes ==
    /\ pc = "scan_repo"
    /\ \E process \in StashRuns :
        LET out == get_command_output_lines(process)
            repo_path == repositories[repo]
        IN  /\ calls' = <<Call("stash", <<>>, process)>>
            /\ stderr' = <<>>
            /\ IF out.raised
               THEN /\ stdout' = StashFailureReport(repo_path, out.returncode)
                    /\ stashes' = 0
                    /\ Return
               ELSE /\ stashes' = Len(out.value)
                    /\ stdout' = StashReport(repo_path, Len(out.value))
                    /\ repo' = repo
                    /\ pc' = "get_branches"
    /\ listing' = <<>> /\ raw_branches' = <<>> /\ branches' = <<>>
    /\ local_only_branches' = <<>> /\ unpushed_branches' = <<>>
    /\ untracked_files' = <<>> /\ modified_files' = <<>>
    /\ UNCHANGED repositories

\* scan_repo, line 45: list(get_branches(repo_path))
GetBranches ==
    /\ pc = "get_branches"
    /\ \/ \E ds \in SeqsUpTo(ScanPool, MaxListed) :
            LET process == Process(0, GitBranchOutput(ds))
                out == get_command_output_lines(process)
                parsed == parse_git_branch_output(out.value)
            IN  /\ listing' = ds
                /\ raw_branches' = out.value
                /\ branches' = parsed.yielded
                /\ stderr' = stderr \o parsed.written
                /\ calls' = Append(calls, Call("branch", <<>>, process))
                /\ repo' = repo
                /\ pc' = "local_only"
       \/ /\ calls' = Append(calls, Call("branch", <<>>, Process(NOT_A_REPO, <<>>)))
          /\ Raise
          /\ UNCHANGED <<listing, raw_branches, branches, stderr>>
    /\ UNCHANGED <<repositories, stashes, local_only_branches, unpushed_branches,
                   untracked_files, modified_files, stdout>>

\* scan_repo, lines 47-49: check_local_only_branches and its report
CheckLocalOnly ==
    /\ pc = "local_only"
    /\ \E git_log \in [1..Len(branches) -> LogRuns] :
        LET out == check_local_only_branches(branches, git_log)
        IN  /\ calls' = calls \o out.calls
            /\ IF out.raised
               THEN /\ Raise
                    /\ UNCHANGED <<local_only_branches, stdout>>
               ELSE /\ local_only_branches' = out.value
                    /\ stdout' = stdout \o LocalOnlyReport(repositories[repo], out.value)
                    /\ repo' = repo
                    /\ pc' = "unpushed"
    /\ UNCHANGED <<repositories, stashes, listing, raw_branches, branches,
                   unpushed_branches, untracked_files, modified_files, stderr>>

\* scan_repo, lines 51-55: check_unpushed_branches and its report
CheckUnpushed ==
    /\ pc = "unpushed"
    /\ unpushed_branches' = check_unpushed_branches(branches)
    /\ stdout' = stdout \o UnpushedReport(repositories[repo],
                                          check_unpushed_branches(branches))
    /\ pc' = "untracked"
    /\ UNCHANGED <<repositories, repo, stashes, listing, raw_branches, branches,
                   local_only_branches, untracked_files, modified_files, stderr,
                   calls>>

\* scan_repo, lines 57-59: check_untracked_files and its report
CheckUntracked ==
    /\ pc = "untracked"
    /\ \E process \in FileRuns :
        LET out == get_command_output_lines(process)
        IN  /\ calls' = Append(calls, Call("ls-files --others", <<>>, process))
            /\ IF out.raised
               THEN /\ Raise
                    /\ UNCHANGED <<untracked_files, stdout>>
               ELSE /\ untracked_files' = out.value
                    /\ stdout' = stdout \o FileReport(repositories[repo],
                                                      "has untracked file", out.value)
                    /\ repo' = repo
                    /\ pc' = "modified"
    /\ UNCHANGED <<repositories, stashes, listing, raw_branches, branches,
                   local_only_branches, unpushed_branches, modified_files, stderr>>

\* scan_repo, lines 61-67: check_modified_files, its report, and the verdict
CheckModified ==
    /\ pc = "modified"
    /\ \E process \in FileRuns :
        LET out == get_command_output_lines(process)
        IN  /\ calls' = Append(calls, Call("ls-files -m", <<>>, process))
            /\ IF out.raised
               THEN /\ Raise
                    /\ UNCHANGED <<modified_files, stdout>>
               ELSE /\ modified_files' = out.value
                    /\ stdout' = stdout
                           \o FileReport(repositories[repo], "has modified file", out.value)
                           \o VerdictReport(repositories[repo], stashes,
                                            local_only_branches, unpushed_branches,
                                            untracked_files, out.value)
                    /\ Return
    /\ UNCHANGED <<repositories, stashes, listing, raw_branches, branches,
                   local_only_branches, unpushed_branches, untracked_files, stderr>>

Next ==
    \/ CheckStashes
    \/ GetBranches
    \/ CheckLocalOnly
    \/ CheckUnpushed
    \/ CheckUntracked
    \/ CheckModified

Spec == Init /\ [][Next]_vars

(* ------------------------------------------------------------------ *)
(* The classifier on its own: check_local_only_branches and             *)
(* check_unpushed_branches applied to parsed records                    *)
(* ------------------------------------------------------------------ *)
\* records the parser yields
RecordPool ==
    {Branch(name, <<"a", "1">>, None, None, 0, 0) : name \in {<<"m">>, <<"w", "i", "p">>}}
    \cup {Branch(name, <<"a", "1">>, Some(<<"o">>), Some(name), a, b) :
            name \in {<<"m">>, <<"w", "i", "p">>}, a \in Counts, b \in Counts}

InitClassify ==
    /\ branches \in SeqsUpTo(RecordPool, MaxBranches)
    /\ pc = "local_only"
    /\ repositories = <<Path(1)>> /\ repo = 1
    /\ stashes = 0 /\ listing = <<>> /\ raw_branches = <<>>
    /\ local_only_branches = <<>> /\ unpushed_branches = <<>>
    /\ untracked_files = <<>> /\ modified_files = <<>>
    /\ stdout = <<>> /\ stderr = <<>> /\ calls = <<>>

NextClassify ==
    \/ CheckLocalOnly
    \/ CheckUnpushed

SpecClassify == InitClassify /\ [][NextClassify]_vars

(* ------------------------------------------------------------------ *)
(* Properties of the parser                                             *)
(* ------------------------------------------------------------------ *)
\* the lines of the listing that have the overall line shape
ShapedLines == {i \in 1..Len(listing) : listing[i].shaped}

\* the position, among the records, of the record of line i
Rank(i) == Cardinality({j \in 1..i : listing[j].shaped})

\* the position, among the diagnostics, of the diagnostic of line i
Skipped(i) == i - Rank(i)

\* C4: a line whose state starts with "[remote/branch]", "[remote/branch: ahead N]",
\* "[remote/branch: behind M]" or "[remote/branch: ahead N, behind M]" is parsed
\* to a record with that remote and remote branch, ahead = N (0 when absent) and
\* behind = M (0 when absent).
C4_TrackingParsed ==
    pc = "parsed" =>
        \A i \in 1..Len(listing) :
            listing[i].kind = "tracked" =>
                /\ Rank(i) \in 1..Len(branches)
                /\ branches[Rank(i)].remote = Some(listing[i].remote)
                /\ branches[Rank(i)].remote_branch = Some(listing[i].remote_branch)
                /\ branches[Rank(i)].ahead = listing[i].ahead
                /\ branches[Rank(i)].behind = listing[i].behind

\* a listing with "ahead N, behind M" of two digits, one with "ahead" alone and one
\* with "behind" alone has been parsed
C4_Witness ==
    /\ pc = "parsed"
    /\ \E i \in 1..Len(listing) :
        /\ listing[i].kind = "tracked"
        /\ listing[i].ahead = MaxCount /\ listing[i].behind = MaxCount
        /\ branches[Rank(i)].ahead = MaxCount
    /\ \E i \in 1..Len(listing) :
        /\ listing[i].kind = "tracked"
        /\ (listing[i].ahead = 0) # (listing[i].behind = 0)

\* C5: a line of the overall shape whose state has no tracking annotation is
\* parsed to a record with the line's name and head, no remote, no remote branch
\* and ahead = behind = 0.
C5_LocalParsed ==
    pc = "parsed" =>
        \A i \in 1..Len(listing) :
            listing[i].kind = "local" =>
                /\ Rank(i) \in 1..Len(branches)
                /\ branches[Rank(i)] =
                       Branch(listing[i].name, listing[i].head, None, None, 0, 0)

\* a local branch whose subject holds a bracket after its first character has
\* been parsed
C5_Witness ==
    /\ pc = "parsed"
    /\ \E i \in 1..Len(listing) :
        /\ listing[i].kind = "local"
        /\ listing[i].subject # Fix
        /\ listing[i].subject[1] # "["
        /\ branches[Rank(i)].remote = None

\* C6: the parser yields one record for each line of the overall shape and none
\* for the other lines, and the records are in the order of their lines.
C6_OneRecordPerLineInOrder ==
    pc = "parsed" =>
        /\ Len(branches) = Cardinality(ShapedLines)
        /\ \A i \in ShapedLines :
            /\ branches[Rank(i)].name = listing[i].name
            /\ branches[Rank(i)].head = listing[i].head

\* two lines of different names were parsed
C6_Witness ==
    /\ pc = "parsed"
    /\ Len(listing) >= 2
    /\ Len(branches) >= 2
    /\ branches[1].name # branches[2].name

\* C7: each line that has not the overall shape is written to stderr, and the
\* lines after it are still parsed.
C7_SkippedLinesReported ==
    pc = "parsed" =>
        /\ Len(stderr) = Len(listing) - Cardinality(ShapedLines)
        /\ \A i \in 1..Len(listing) :
            ~listing[i].shaped =>
                /\ stderr[Skipped(i)] = raw_branches[i]
                /\ \A j \in (i + 1)..Len(listing) :
                    IF listing[j].shaped
                    THEN /\ Rank(j) \in 1..Len(branches)
                         /\ branches[Rank(j)].name = listing[j].name
                    ELSE stderr[Skipped(j)] = raw_branches[j]

\* a line without the shape was followed by a line that was parsed
C7_Witness ==
    /\ pc = "parsed"
    /\ Len(listing) >= 2
    /\ ~listing[1].shaped
    /\ listing[2].shaped
    /\ Len(stderr) = 1
    /\ Len(branches) >= 1

\* C10: in every record, remote_branch is set exactly when remote is, ahead and
\* behind are not negative, and both are 0 when remote is absent.
C10_BranchInvariant ==
    \A i \in 1..Len(branches) :
        /\ (branches[i].remote_branch # None) <=> (branches[i].remote # None)
        /\ branches[i].ahead \in Nat
        /\ branches[i].behind \in Nat
        /\ branches[i].remote = None =>
               branches[i].ahead = 0 /\ branches[i].behind = 0

\* a record with a remote and a record of a line whose annotation is not a
\* tracking annotation the parser knows
C10_Witness ==
    /\ pc = "parsed"
    /\ \E i \in 1..Len(branches) : branches[i].remote # None /\ branches[i].behind > 0
    /\ \E i \in 1..Len(listing) :
        /\ listing[i].kind = "raw" /\ listing[i].shaped
        /\ branches[Rank(i)].remote = None

(* ------------------------------------------------------------------ *)
(* Properties of the classifier                                         *)
(* ------------------------------------------------------------------ *)
\* how many members of S are at most i
Upto(S, i) == Cardinality({j \in S : j <= i})

\* the records with a remote and ahead > 0
AheadOfRemote ==
    {i \in 1..Len(branches) : branches[i].remote # None /\ branches[i].ahead > 0}

\* the records with no remote
WithoutRemote == {i \in 1..Len(branches) : branches[i].remote = None}

\* the records with no remote for which `git log ^master` printed a line
WithCommits ==
    {i \in WithoutRemote :
        /\ Upto(WithoutRemote, i) <= Len(calls)
        /\ calls[Upto(WithoutRemote, i)].lines >= 1}

\* C8: check_unpushed_branches reports exactly the records with a remote and
\* ahead > 0, each as (name, ahead, behind), in order; a record with ahead = 0
\* is left out whatever its behind count; no git command is run for it.
C8_UnpushedReported ==
    pc = "untracked" =>
        /\ Len(unpushed_branches) = Cardinality(AheadOfRemote)
        /\ \A i \in AheadOfRemote :
            unpushed_branches[Upto(AheadOfRemote, i)] =
                <<branches[i].name, branches[i].ahead, branches[i].behind>>
        /\ \A k \in 1..Len(calls) : calls[k].cmd = "log"
        /\ Len(calls) = Cardinality(WithoutRemote)

\* a branch that is ahead was reported and a branch that is only behind was not
C8_Witness ==
    /\ pc = "untracked"
    /\ Len(unpushed_branches) = 1
    /\ \E i \in 1..Len(branches) :
        /\ branches[i].remote # None
        /\ branches[i].ahead = 0
        /\ branches[i].behind > 0

\* C9: check_local_only_branches runs `git log ^master <name>` for the records
\* with no remote and for no other, and reports exactly those for which the
\* count is at least 1, each as (name, count) with the count git gave.
C9_LocalOnlyReported ==
    /\ Len(calls) <= Cardinality(WithoutRemote)
    /\ \A i \in WithoutRemote :
        Upto(WithoutRemote, i) <= Len(calls) =>
            /\ calls[Upto(WithoutRemote, i)].cmd = "log"
            /\ calls[Upto(WithoutRemote, i)].arg = branches[i].name
    /\ pc \in {"unpushed", "untracked"} =>
        /\ Len(calls) = Cardinality(WithoutRemote)
        /\ Len(local_only_branches) = Cardinality(WithCommits)
        /\ \A i \in WithCommits :
            local_only_branches[Upto(WithCommits, i)] =
                <<branches[i].name, calls[Upto(WithoutRemote, i)].lines>>

\* of two branches with no remote, the one with commits was reported and the
\* one without was not, next to a branch with a remote
C9_Witness ==
    /\ pc = "unpushed"
    /\ Len(calls) >= 1
    /\ \E k \in 1..Len(calls) : calls[k].lines = 0
    /\ \E k \in 1..Len(calls) : calls[k].lines = MaxCommits
    /\ Len(local_only_branches) = Len(calls) - 1

(* ------------------------------------------------------------------ *)
(* Properties of main and scan_repo                                     *)
(* ------------------------------------------------------------------ *)
\* scan_repo has returned to main
Returned == pc \in {"scan_repo", "exit"} /\ calls # <<>>

\* the process has ended
Ended == pc \in {"exit", "raised"}

\* the number of repositories scan_repo was called for
Scans == IF pc \in {"scan_repo", "exit"} THEN repo - 1 ELSE repo

\* C1: whichever git command fails, the process scans every repository given.
C1_FullPass == Ended => Scans = Len(repositories)

\* C2: when `git stash list` exits with 128, scan_repo prints the one line
\* "<path> is not a git repo", runs no other command and returns.
C2_NotARepo ==
    (calls # <<>> /\ calls[1].cmd = "stash" /\ calls[1].returncode = NOT_A_REPO) =>
        /\ Returned
        /\ Len(calls) = 1
        /\ stdout = <<Line(repositories[repo - 1], "is not a git repo", <<>>, 0, 0)>>
        /\ stderr = <<>>

\* the first of two paths was no repository
C2_Witness ==
    /\ pc = "scan_repo"
    /\ repo = 2
    /\ calls # <<>>
    /\ calls[1].returncode = NOT_A_REPO
    /\ Len(stdout) = 1

\* every probe of the last scan_repo call succeeded
Completed ==
    /\ Returned
    /\ calls[Len(calls)].cmd = "ls-files -m"
    /\ calls[Len(calls)].returncode = 0

\* C3: a scan that completed all probes prints "<path> is up to date" exactly
\* when there are no stashes, no local-only branches, no unpushed branches, no
\* untracked files and no modified files.
C3_UpToDateVerdict ==
    Completed =>
        ((\E i \in 1..Len(stdout) :
              stdout[i] = Line(repositories[repo - 1], "is up to date", <<>>, 0, 0))
         <=> (/\ stashes = 0
              /\ local_only_branches = <<>>
              /\ unpushed_branches = <<>>
              /\ untracked_files = <<>>
              /\ modified_files = <<>>))

\* a repository with branches, one of them behind its remote, was found up to
\* date
C3_Witness ==
    /\ Completed
    /\ Len(branches) = 2
    /\ \E i \in 1..Len(branches) : branches[i].behind > 0
    /\ stdout = <<Line(repositories[repo - 1], "is up to date", <<>>, 0, 0)>>

====
